---- MODULE Spec2Model ----
(***************************************************************************)
(* libfranka network transport: class Network (one TCP stream socket, one  *)
(* UDP datagram socket, one mutex per socket, the command id counter).     *)
(*                                                                         *)
(* Data is modelled in 32-bit words.  A word is a pair <<hi, lo>> of its   *)
(* two 16-bit halves, so that the uint32_t counter keeps its width.        *)
(* A header is two words (command, command_id); a response payload is      *)
(* sizeof(T::Response) words, a size fixed by the command kind T.          *)
(***************************************************************************)
EXTENDS Naturals, Sequences, FiniteSets

VARIABLES
  command_id_,   \* Network::command_id_ (uint32_t, as <<hi, lo>>)
  id0,           \* value of command_id_ when the observed run starts
  ncalls,        \* number of tcpSendRequest bodies executed so far
  tcp_mutex_,    \* Network::tcp_mutex_: 0 (free) or the owning thread
  udp_mutex_,    \* Network::udp_mutex_: 0 (free) or the owning thread
  sent,          \* request frames written to the stream, in write order
  srv_sent,      \* response frames the server wrote, in write order
  net,           \* words of srv_sent still in flight to the client
  tcp_in,        \* tcp_socket_ receive buffer (words, FIFO)
  nread,         \* read position: words removed from the stream so far
  tcp_closed,    \* the peer closed the connection
  udp_in,        \* udp_socket_ receive queue (datagrams, FIFO)
  udp_seq,       \* number of datagrams the server has sent
  pc,            \* per thread: position inside the current operation
  arg,           \* per thread: arguments of the current / last operation
  buf,           \* per thread: the local `response` / `buffer` being filled
  out,           \* per thread: the caller's *data object of udpReceive
  ret,           \* per thread: outcome of the last operation
  arr0,          \* per thread: words arrived on the stream when the call began
  app,           \* per thread: the caller built on Network (connect, LibraryDownloader)
  ri_version,    \* per thread: the caller's *ri_version object of connect
  storage,       \* the file at LibraryDownloader::path()
  raw,           \* the raw words the server wrote behind a LoadModelLibrary response
  fault,         \* what raises an exception when called: a socket, "handler", or "none"
  udp_out        \* datagrams udp_socket_ has sent to the server, in order

vars == <<command_id_, id0, ncalls, tcp_mutex_, udp_mutex_, sent, srv_sent, net,
          tcp_in, nread, tcp_closed, udp_in, udp_seq, pc, arg, buf, out, ret, arr0,
          app, ri_version, storage, raw, fault, udp_out>>

tcpVars == <<command_id_, id0, ncalls, tcp_mutex_, sent, srv_sent, net, tcp_in,
             nread, tcp_closed>>

udpVars == <<udp_mutex_, udp_in, udp_seq>>

\* what the operations of Network themselves never write
extVars == <<app, ri_version, storage, raw, fault, udp_out>>

(***************************************************************************)
(* Bounds of the model.                                                    *)
(***************************************************************************)
MaxSends == 2

MaxDatagrams == 3

MaxUdpSends == 1

Threads == {1, 2}

(***************************************************************************)
(* 32-bit words.                                                           *)
(***************************************************************************)
Half == 65536

W(n) == <<0, n>>

U32Max == <<Half - 1, Half - 1>>

Inc32_stuck(x) == x

\* x + 1 in uint32_t arithmetic (command_id_++ wraps at 2^32)
Inc32(x) ==
  IF x[2] + 1 < Half THEN <<x[1], x[2] + 1>>
  ELSE IF x[1] + 1 < Half THEN <<x[1] + 1, 0>>
  ELSE <<0, 0>>

RECURSIVE Add32(_, _)
Add32(x, n) == IF n = 0 THEN x ELSE Add32(Inc32(x), n - 1)

\* y is, as a number, exactly x + 1
IsSucc32(x, y) == x # U32Max /\ y = Inc32(x)

\* The counter is 0 after construction; the second value stands for a
\* connection on which 2^32 - 1 requests have already been exchanged.
StartIds == {<<0, 0>>, U32Max}

(***************************************************************************)
(* Frames.                                                                 *)
(***************************************************************************)
Kinds == {1, 2}

HeaderSize == 2

ResponseSize(c) == IF c = 2 THEN 1 ELSE 2

\* The response payload the server builds for the request of call n: the
\* words differ from one request to the next.
Payload(c, n) == IF c = 1 THEN <<W(n), W(n + 10)>> ELSE <<W(n)>>

Header(c, id) == [command |-> c, command_id |-> id]

\* the connect command: its request carries the UDP port, its response is
\* (status, version)
kConnect == 1

\* Network::udpPort(): the local port udp_socket_ is bound to
udp_port_ == 5000

\* the arguments a caller passes for a request of kind c
RequestArgs(c) == IF c = kConnect THEN <<W(udp_port_)>> ELSE <<>>

Request_empty(args) == <<>>

\* typename T::Request(std::forward<TArgs>(args)...): the request payload
Request(args) == args

ResponseTo(r) == [header |-> r.header, payload |-> Payload(r.header.command, r.call)]

HeaderWords(h) == <<W(h.command), h.command_id>>

ResponseWords(f) == HeaderWords(f.header) \o f.payload

FrameSize_payload(c) == ResponseSize(c)

FrameSize_next(c) == HeaderSize + ResponseSize(c) + 1

\* sizeof(response): header plus std::array<uint8_t, sizeof(T::Response)>
FrameSize(c) == HeaderSize + ResponseSize(c)

Min(a, b) == IF a < b THEN a ELSE b

Drop(s, n) == SubSeq(s, n + 1, Len(s))

Take(s, n) == SubSeq(s, 1, Min(n, Len(s)))

NoRet == [st |-> "none", val |-> <<>>, hnd |-> <<>>]

NoArg == [op |-> "none", cmd |-> 0, id |-> <<0, 0>>, req |-> <<>>]

NoApp == [op |-> "none", at |-> "none", id |-> <<0, 0>>, res |-> "none", msg |-> <<>>,
          size |-> 0]

\* no file at path() yet
NoFile == [exists |-> FALSE, data |-> <<>>]

(***************************************************************************)
(* Socket primitives as the code uses them.                                *)
(***************************************************************************)
\* tcp_socket_.poll(0, SELECT_READ) && tcp_socket_.available() >= sizeof(T):
\* a closed connection polls readable but has nothing available.
PeekOk(s) == Len(s) >= HeaderSize

\* the header that receiveBytes(header, sizeof(T), MSG_PEEK) copies out
PeekHeader(s) == [command |-> s[1], command_id |-> s[2]]

AfterPeek_consume(s) == Drop(s, HeaderSize)

\* MSG_PEEK leaves the stream as it was
AfterPeek(s) == s

HeaderMatches_command(h, c, id) == h.command = W(c)

\* response.header.command == T::kCommand && response.header.command_id == command_id
HeaderMatches(h, c, id) == h.command = W(c) /\ h.command_id = id

ResponsePayload_short(b) == SubSeq(b, HeaderSize + 1, Len(b) - 1)

\* *reinterpret_cast<typename T::Response*>(response.payload.data())
ResponsePayload(b) == Drop(b, HeaderSize)

AfterMiss_locked(t) == t

\* lock.unlock() after a peek that did not match: the mutex is free again
AfterMiss(t) == 0

AfterMatch_unlocked(t) == 0

\* break after a peek that matched: the loop is left with the mutex still owned
AfterMatch(t) == t

AfterRead_unlocked(t) == 0

\* after tcpReceiveIntoBufferUnsafe in tcpReceiveResponse: the lock_guard of
\* line 234 is still in scope when the handler is called
AfterRead(t) == t

Unwind_held(t) == t

\* an exception leaves the scope of the lock_guard of line 234: its
\* destructor unlocks
Unwind(t) == 0

\* Number of words one receiveBytes call of tcpReceiveIntoBufferUnsafe takes:
\* what is available, at most what is still missing.
ReadCount(s, b, size) == Min(Len(s), size - Len(b))

\* tcpReceiveIntoBufferUnsafe gives up (NetworkException) when the stream is
\* closed and drained before the requested size was read.
ReadFails(s, closed) == s = <<>> /\ closed

\* the requests on the stream: what a caller can wait for
Issued == {sent[i].header : i \in 1..Len(sent)}

Answered(h) == \E j \in 1..Len(srv_sent) : srv_sent[j].header = h

(***************************************************************************)
(* Initial state: Network after construction, no operation in progress.    *)
(***************************************************************************)
Init ==
  /\ id0 \in StartIds
  /\ command_id_ = id0
  /\ ncalls = 0
  /\ tcp_mutex_ = 0
  /\ udp_mutex_ = 0
  /\ sent = <<>>
  /\ srv_sent = <<>>
  /\ net = <<>>
  /\ tcp_in = <<>>
  /\ nread = 0
  /\ tcp_closed = FALSE
  /\ udp_in = <<>>
  /\ udp_seq = 0
  /\ pc = [t \in Threads |-> "idle"]
  /\ arg = [t \in Threads |-> NoArg]
  /\ buf = [t \in Threads |-> <<>>]
  /\ out = [t \in Threads |-> <<>>]
  /\ ret = [t \in Threads |-> NoRet]
  /\ arr0 = [t \in Threads |-> 0]
  /\ app = [t \in Threads |-> NoApp]
  /\ ri_version = [t \in Threads |-> 0]
  /\ storage = NoFile
  /\ raw = <<>>
  /\ fault = "none"
  /\ udp_out = <<>>

ReceiveOps == {"tcpReceiveResponse", "tcpBlockingReceiveResponse"}

\* A thread enters an operation: fresh locals, no outcome yet.
Enter(t, p, a) ==
  /\ pc[t] = "idle"
  /\ pc' = [pc EXCEPT ![t] = p]
  /\ arg' = [arg EXCEPT ![t] = a]
  /\ buf' = [buf EXCEPT ![t] = <<>>]
  /\ ret' = [ret EXCEPT ![t] = NoRet]
  /\ arr0' = [arr0 EXCEPT ![t] = IF a.op \in ReceiveOps THEN Len(tcp_in) ELSE 0]

\* A thread leaves its operation with outcome r.
Leave(t, r) ==
  /\ pc' = [pc EXCEPT ![t] = "idle"]
  /\ ret' = [ret EXCEPT ![t] = r]

(***************************************************************************)
(* The server side of the reliable channel.                                *)
(***************************************************************************)
\* The server answers request i with payload p; the frame goes in flight.
ServerRespond(i) ==
  /\ ~tcp_closed
  /\ ~Answered(sent[i].header)
  /\ srv_sent' = Append(srv_sent, ResponseTo(sent[i]))
  /\ net' = net \o ResponseWords(ResponseTo(sent[i]))
  /\ UNCHANGED <<command_id_, id0, ncalls, tcp_mutex_, sent, tcp_in, nread,
                 tcp_closed, udpVars, pc, arg, buf, out, ret, arr0>>
  /\ UNCHANGED extVars

\* One more word of the stream reaches the client's socket.
ServerDeliver ==
  /\ ~tcp_closed
  /\ net # <<>>
  /\ tcp_in' = Append(tcp_in, Head(net))
  /\ net' = Tail(net)
  /\ UNCHANGED <<command_id_, id0, ncalls, tcp_mutex_, sent, srv_sent, nread,
                 tcp_closed, udpVars, pc, arg, buf, out, ret, arr0>>
  /\ UNCHANGED extVars

\* The peer closes the connection; what was still in flight never arrives.
ServerClose ==
  /\ ~tcp_closed
  /\ tcp_closed' = TRUE
  /\ net' = <<>>
  /\ UNCHANGED <<command_id_, id0, ncalls, tcp_mutex_, sent, srv_sent, tcp_in,
                 nread, udpVars, pc, arg, buf, out, ret, arr0>>
  /\ UNCHANGED extVars

(***************************************************************************)
(* Network::tcpSendRequest                                                 *)
(***************************************************************************)
tcpSendRequest_lock_free(t, c, args) ==
  /\ ncalls < MaxSends
  /\ Enter(t, "send", [op |-> "tcpSendRequest", cmd |-> c, id |-> <<0, 0>>,
                       req |-> args])
  /\ UNCHANGED <<command_id_, id0, ncalls, tcp_mutex_, sent, srv_sent, net, tcp_in,
                 nread, tcp_closed, udpVars, out>>
  /\ UNCHANGED extVars

\* the call with arguments args for T::Request; lock_guard takes tcp_mutex_
tcpSendRequest_lock(t, c, args) ==
  /\ ncalls < MaxSends
  /\ tcp_mutex_ = 0
  /\ tcp_mutex_' = t
  /\ Enter(t, "send", [op |-> "tcpSendRequest", cmd |-> c, id |-> <<0, 0>>,
                       req |-> args])
  /\ UNCHANGED <<command_id_, id0, ncalls, sent, srv_sent, net, tcp_in, nread,
                 tcp_closed, udpVars, out>>
  /\ UNCHANGED extVars

\* header(T::kCommand, command_id_++), payload T::Request(args...); sendBytes succeeds (the frame is on the
\* stream, the id is returned) or throws (NetworkException); lock_guard unlocks.
tcpSendRequest_send(t) ==
  /\ pc[t] = "send"
  /\ command_id_' = Inc32(command_id_)
  /\ ncalls' = ncalls + 1
  /\ tcp_mutex_' = 0
  /\ \E ok \in (IF fault = "tcp" THEN {FALSE} ELSE BOOLEAN) :
       IF ok
       THEN /\ sent' = Append(sent, [header |-> Header(arg[t].cmd, command_id_),
                                     payload |-> Request(arg[t].req),
                                     call |-> ncalls])
            /\ Leave(t, [st |-> "value", val |-> <<command_id_>>, hnd |-> <<>>])
       ELSE /\ sent' = sent
            /\ Leave(t, [st |-> "NetworkException", val |-> <<>>, hnd |-> <<>>])
  /\ UNCHANGED <<id0, srv_sent, net, tcp_in, nread, tcp_closed, udpVars, arg, buf,
                 out, arr0>>
  /\ UNCHANGED extVars

(***************************************************************************)
(* Network::tcpReceiveResponse                                             *)
(***************************************************************************)
tcpReceiveResponse_lock(t, c, id) ==
  /\ tcp_mutex_ = 0
  /\ tcp_mutex_' = t
  /\ Enter(t, "try_peek", [op |-> "tcpReceiveResponse", cmd |-> c, id |-> id])
  /\ UNCHANGED <<command_id_, id0, ncalls, sent, srv_sent, net, tcp_in, nread,
                 tcp_closed, udpVars, out>>
  /\ UNCHANGED extVars

\* tcpPeekHeaderUnsafe and the comparison of the peeked header: either
\* return false (lock_guard unlocks) or go on to read the frame.  A Poco
\* exception of poll, available or receiveBytes is rethrown by
\* tcpPeekHeaderUnsafe as NetworkException.
tcpReceiveResponse_peek(t) ==
  /\ pc[t] = "try_peek"
  /\ tcp_in' = IF PeekOk(tcp_in) THEN AfterPeek(tcp_in) ELSE tcp_in
  /\ nread' = nread + (Len(tcp_in) - Len(tcp_in'))
  /\ IF fault = "tcp"
     THEN /\ tcp_mutex_' = 0
          /\ Leave(t, [st |-> "NetworkException", val |-> <<>>, hnd |-> <<>>])
     ELSE IF PeekOk(tcp_in) /\ HeaderMatches(PeekHeader(tcp_in), arg[t].cmd, arg[t].id)
     THEN /\ pc' = [pc EXCEPT ![t] = "try_read"]
          /\ UNCHANGED <<tcp_mutex_, ret>>
     ELSE /\ tcp_mutex_' = 0
          /\ Leave(t, [st |-> "false", val |-> <<>>, hnd |-> <<>>])
  /\ UNCHANGED <<command_id_, id0, ncalls, sent, srv_sent, net, tcp_closed,
                 udpVars, arg, buf, out, arr0>>
  /\ UNCHANGED extVars

\* tcpReceiveIntoBufferUnsafe(&response, sizeof(response)), one receiveBytes
\* per step; with the frame complete the handler is next.  A closed, drained
\* stream ends the read in a NetworkException.
tcpReceiveResponse_read(t) ==
  /\ pc[t] = "try_read"
  /\ tcp_in # <<>> \/ tcp_closed \/ fault = "tcp"
  /\ IF ~ReadFails(tcp_in, tcp_closed) /\ fault # "tcp"
     THEN LET k == ReadCount(tcp_in, buf[t], FrameSize(arg[t].cmd))
              b == buf[t] \o Take(tcp_in, k)
          IN  /\ tcp_in' = Drop(tcp_in, k)
              /\ nread' = nread + k
              /\ buf' = [buf EXCEPT ![t] = b]
              /\ IF Len(b) >= FrameSize(arg[t].cmd)
                 THEN /\ tcp_mutex_' = AfterRead(t)
                      /\ pc' = [pc EXCEPT ![t] = "try_handler"]
                      /\ UNCHANGED ret
                 ELSE UNCHANGED <<tcp_mutex_, pc, ret>>
     ELSE /\ tcp_mutex_' = 0
          /\ Leave(t, [st |-> "NetworkException", val |-> <<>>, hnd |-> <<>>])
          /\ UNCHANGED <<tcp_in, nread, buf>>
  /\ UNCHANGED <<command_id_, id0, ncalls, sent, srv_sent, net, tcp_closed,
                 udpVars, arg, out, arr0>>
  /\ UNCHANGED extVars

\* handler(*reinterpret_cast<typename T::Response*>(response.payload.data()))
\* and return true: the handler gets the payload of the frame just read; when
\* it returns the call returns true, when it throws its exception leaves the
\* call.  The lock_guard unlocks either way.
tcpReceiveResponse_handler(t) ==
  /\ pc[t] = "try_handler"
  /\ tcp_mutex_' = IF fault = "handler" THEN Unwind(t) ELSE 0
  /\ Leave(t, [st |-> IF fault = "handler" THEN "exception" ELSE "true",
               val |-> <<>>,
               hnd |-> <<ResponsePayload(buf[t])>>])
  /\ UNCHANGED <<command_id_, id0, ncalls, sent, srv_sent, net, tcp_in, nread,
                 tcp_closed, udpVars, arg, buf, out, arr0>>
  /\ UNCHANGED extVars

(***************************************************************************)
(* Network::tcpBlockingReceiveResponse                                     *)
(***************************************************************************)
\* the call: unique_lock with defer_lock, nothing locked yet
tcpBlockingReceiveResponse_call(t, c, id) ==
  /\ Enter(t, "blk_loop", [op |-> "tcpBlockingReceiveResponse", cmd |-> c, id |-> id])
  /\ UNCHANGED <<tcpVars, udpVars, out>>
  /\ UNCHANGED extVars

\* lock.lock() at the top of the loop
tcpBlockingReceiveResponse_lock(t) ==
  /\ pc[t] = "blk_loop"
  /\ tcp_mutex_ = 0
  /\ tcp_mutex_' = t
  /\ pc' = [pc EXCEPT ![t] = "blk_peek"]
  /\ UNCHANGED <<command_id_, id0, ncalls, sent, srv_sent, net, tcp_in, nread,
                 tcp_closed, udpVars, arg, buf, out, ret, arr0>>
  /\ UNCHANGED extVars

\* poll (at most 10 ms), tcpPeekHeaderUnsafe and the comparison: break out
\* of the loop with the lock held, or lock.unlock() and go round again.  The
\* poll of line 263 is the first socket call and stands in no try block: its
\* Poco exception leaves the function as it is, the unique_lock unlocking.
tcpBlockingReceiveResponse_peek(t) ==
  /\ pc[t] = "blk_peek"
  /\ tcp_in' = IF PeekOk(tcp_in) THEN AfterPeek(tcp_in) ELSE tcp_in
  /\ nread' = nread + (Len(tcp_in) - Len(tcp_in'))
  /\ IF fault = "tcp"
     THEN /\ tcp_mutex_' = 0
          /\ Leave(t, [st |-> "Poco::Exception", val |-> <<>>, hnd |-> <<>>])
     ELSE IF PeekOk(tcp_in) /\ HeaderMatches(PeekHeader(tcp_in), arg[t].cmd, arg[t].id)
     THEN /\ pc' = [pc EXCEPT ![t] = "blk_read"]
          /\ tcp_mutex_' = AfterMatch(t)
          /\ UNCHANGED ret
     ELSE /\ pc' = [pc EXCEPT ![t] = "blk_loop"]
          /\ tcp_mutex_' = AfterMiss(t)
          /\ UNCHANGED ret
  /\ UNCHANGED <<command_id_, id0, ncalls, sent, srv_sent, net, tcp_closed,
                 udpVars, arg, buf, out, arr0>>
  /\ UNCHANGED extVars

\* tcpReceiveIntoBufferUnsafe(&response, sizeof(response)), one receiveBytes
\* per step; with the frame complete the payload is returned.
tcpBlockingReceiveResponse_read(t) ==
  /\ pc[t] = "blk_read"
  /\ tcp_in # <<>> \/ tcp_closed \/ fault = "tcp"
  /\ IF ~ReadFails(tcp_in, tcp_closed) /\ fault # "tcp"
     THEN LET k == ReadCount(tcp_in, buf[t], FrameSize(arg[t].cmd))
              b == buf[t] \o Take(tcp_in, k)
          IN  /\ tcp_in' = Drop(tcp_in, k)
              /\ nread' = nread + k
              /\ buf' = [buf EXCEPT ![t] = b]
              /\ IF Len(b) >= FrameSize(arg[t].cmd)
                 THEN /\ tcp_mutex_' = 0
                      /\ Leave(t, [st |-> "value", val |-> ResponsePayload(b),
                                   hnd |-> <<>>])
                 ELSE UNCHANGED <<tcp_mutex_, pc, ret>>
     ELSE /\ tcp_mutex_' = 0
          /\ Leave(t, [st |-> "NetworkException", val |-> <<>>, hnd |-> <<>>])
          /\ UNCHANGED <<tcp_in, nread, buf>>
  /\ UNCHANGED <<command_id_, id0, ncalls, sent, srv_sent, net, tcp_closed,
                 udpVars, arg, out, arr0>>
  /\ UNCHANGED extVars

TcpServer ==
  \/ \E i \in 1..Len(sent) : ServerRespond(i)
  \/ ServerDeliver
  \/ ServerClose

TcpClient ==
  \E t \in Threads :
    \/ \E c \in Kinds : tcpSendRequest_lock(t, c, RequestArgs(c))
    \/ tcpSendRequest_send(t)
    \/ \E h \in Issued : tcpReceiveResponse_lock(t, h.command, h.command_id)
    \/ tcpReceiveResponse_peek(t)
    \/ tcpReceiveResponse_read(t)
    \/ tcpReceiveResponse_handler(t)
    \/ \E h \in Issued : tcpBlockingReceiveResponse_call(t, h.command, h.command_id)
    \/ tcpBlockingReceiveResponse_lock(t)
    \/ tcpBlockingReceiveResponse_peek(t)
    \/ tcpBlockingReceiveResponse_read(t)

TcpNext == TcpServer \/ TcpClient

TcpSpec == Init /\ [][TcpNext]_vars

(***************************************************************************)
(* The streaming channel.  A datagram is a sequence of words, all carrying *)
(* the number of the datagram; a snapshot T is SnapshotSize words.         *)
(***************************************************************************)
SnapshotSize == 2

DatagramSizes == {1, 2, 3}

Datagram(n, size) == [k \in 1..size |-> W(n)]

\* udp_socket_.available(): the size of the next queued datagram, 0 if none
UdpAvailable(q) == IF q = <<>> THEN 0 ELSE Len(Head(q))

HasSnapshot_always(q) == TRUE

\* udp_socket_.available() >= static_cast<int>(sizeof(T))
HasSnapshot(q) == UdpAvailable(q) >= SnapshotSize

\* bytes_received of receiveFrom(buffer.data(), buffer.size(), ...): the
\* datagram at the head of the queue, cut to the buffer
BytesReceived(q) == Min(Len(Head(q)), SnapshotSize)

\* Outcome of udpBlockingReceiveUnsafe once receiveFrom is over: the receive
\* timed out on an empty queue (a Poco exception, rethrown as
\* NetworkException), the size is wrong (ProtocolException), or the object.
UdpOutcome(q) ==
  IF q = <<>> THEN [st |-> "NetworkException", val |-> <<>>, hnd |-> <<>>]
  ELSE IF BytesReceived(q) # SnapshotSize
       THEN [st |-> "ProtocolException", val |-> <<>>, hnd |-> <<>>]
       ELSE [st |-> "value", val |-> Take(Head(q), SnapshotSize), hnd |-> <<>>]

\* the queue after receiveFrom: the head datagram is gone, whatever its size
UdpRest(q) == IF q = <<>> THEN q ELSE Tail(q)

\* The server streams one more datagram.
UdpServerSend(size) ==
  /\ udp_seq < MaxDatagrams
  /\ udp_seq' = udp_seq + 1
  /\ udp_in' = Append(udp_in, Datagram(udp_seq + 1, size))
  /\ UNCHANGED <<tcpVars, udp_mutex_, pc, arg, buf, out, ret, arr0>>
  /\ UNCHANGED extVars

(***************************************************************************)
(* Network::udpReceive                                                     *)
(***************************************************************************)
udpReceive_lock(t) ==
  /\ udp_mutex_ = 0
  /\ udp_mutex_' = t
  /\ Enter(t, "udp_try", [op |-> "udpReceive", cmd |-> 0, id |-> <<0, 0>>])
  /\ UNCHANGED <<tcpVars, udp_in, udp_seq, out>>
  /\ UNCHANGED extVars

\* the availability test, then *data = udpBlockingReceiveUnsafe<T>() and
\* return true, or return false; lock_guard unlocks.  available() is called
\* outside the try block of udpBlockingReceiveUnsafe: its Poco exception
\* leaves udpReceive as it is.
udpReceive_body(t) ==
  /\ pc[t] = "udp_try"
  /\ udp_mutex_' = 0
  /\ IF fault = "udp"
     THEN /\ Leave(t, [st |-> "Poco::Exception", val |-> <<>>, hnd |-> <<>>])
          /\ UNCHANGED <<udp_in, out>>
     ELSE IF HasSnapshot(udp_in)
     THEN /\ udp_in' = UdpRest(udp_in)
          /\ IF UdpOutcome(udp_in).st = "value"
             THEN /\ out' = [out EXCEPT ![t] = UdpOutcome(udp_in).val]
                  /\ Leave(t, [st |-> "true", val |-> <<>>, hnd |-> <<>>])
             ELSE /\ out' = out
                  /\ Leave(t, UdpOutcome(udp_in))
     ELSE /\ Leave(t, [st |-> "false", val |-> <<>>, hnd |-> <<>>])
          /\ UNCHANGED <<udp_in, out>>
  /\ UNCHANGED <<tcpVars, udp_seq, arg, buf, arr0>>
  /\ UNCHANGED extVars

(***************************************************************************)
(* Network::udpBlockingReceive                                             *)
(***************************************************************************)
udpBlockingReceive_lock(t) ==
  /\ udp_mutex_ = 0
  /\ udp_mutex_' = t
  /\ Enter(t, "udp_blk", [op |-> "udpBlockingReceive", cmd |-> 0, id |-> <<0, 0>>])
  /\ UNCHANGED <<tcpVars, udp_in, udp_seq, out>>
  /\ UNCHANGED extVars

\* return udpBlockingReceiveUnsafe<T>(): receiveFrom waits for a datagram or
\* times out; lock_guard unlocks.
udpBlockingReceive_recv(t) ==
  /\ pc[t] = "udp_blk"
  /\ udp_mutex_' = 0
  /\ IF fault = "udp"
     THEN /\ udp_in' = udp_in
          /\ Leave(t, [st |-> "NetworkException", val |-> <<>>, hnd |-> <<>>])
     ELSE /\ udp_in' = UdpRest(udp_in)
          /\ Leave(t, UdpOutcome(udp_in))
  /\ UNCHANGED <<tcpVars, udp_seq, arg, buf, out, arr0>>
  /\ UNCHANGED extVars

(***************************************************************************)
(* Network::udpSend                                                        *)
(***************************************************************************)
udpSend_lock_tcp(t) ==
  /\ Len(udp_out) < MaxUdpSends
  /\ tcp_mutex_ = 0
  /\ tcp_mutex_' = t
  /\ Enter(t, "udp_send", [op |-> "udpSend", cmd |-> 0, id |-> <<0, 0>>,
                           req |-> Datagram(Len(udp_out) + 1, SnapshotSize)])
  /\ UNCHANGED <<command_id_, id0, ncalls, sent, srv_sent, net, tcp_in, nread,
                 tcp_closed, udpVars, out>>
  /\ UNCHANGED extVars

\* the call with the object data; lock_guard takes udp_mutex_
udpSend_lock(t) ==
  /\ Len(udp_out) < MaxUdpSends
  /\ udp_mutex_ = 0
  /\ udp_mutex_' = t
  /\ Enter(t, "udp_send", [op |-> "udpSend", cmd |-> 0, id |-> <<0, 0>>,
                           req |-> Datagram(Len(udp_out) + 1, SnapshotSize)])
  /\ UNCHANGED <<tcpVars, udp_in, udp_seq, out>>
  /\ UNCHANGED extVars

\* sendTo(&data, sizeof(data), ...): a Poco exception and a short count both
\* end in a NetworkException; lock_guard unlocks.
udpSend_send(t) ==
  /\ pc[t] = "udp_send"
  /\ udp_mutex_' = 0
  /\ IF fault = "udp"
     THEN /\ udp_out' = udp_out
          /\ Leave(t, [st |-> "NetworkException", val |-> <<>>, hnd |-> <<>>])
     ELSE \E bytes_sent \in {SnapshotSize - 1, SnapshotSize} :
            /\ udp_out' = Append(udp_out, Take(arg[t].req, bytes_sent))
            /\ Leave(t, [st |-> IF bytes_sent # SnapshotSize THEN "NetworkException"
                                ELSE "void",
                         val |-> <<>>, hnd |-> <<>>])
  /\ UNCHANGED <<tcpVars, udp_in, udp_seq, arg, buf, out, arr0, app, ri_version,
                 storage, raw, fault>>

UdpNext ==
  \/ \E size \in DatagramSizes : UdpServerSend(size)
  \/ \E t \in Threads :
       \/ udpReceive_lock(t)
       \/ udpReceive_body(t)
       \/ udpBlockingReceive_lock(t)
       \/ udpBlockingReceive_recv(t)
       \/ udpSend_lock(t)
       \/ udpSend_send(t)

UdpSpec == Init /\ [][UdpNext]_vars

Next == TcpNext \/ UdpNext

Spec == Init /\ [][Next]_vars

(***************************************************************************)
(* What the server wrote, as one stream of words.                          *)
(***************************************************************************)
RECURSIVE FrameEnd(_)
\* position of the last word of the j-th response frame
FrameEnd(j) == IF j = 0 THEN 0 ELSE FrameEnd(j - 1) + Len(ResponseWords(srv_sent[j]))

RECURSIVE StreamUpTo(_)
StreamUpTo(j) == IF j = 0 THEN <<>> ELSE StreamUpTo(j - 1) \o ResponseWords(srv_sent[j])

Stream == StreamUpTo(Len(srv_sent))

\* index of the response frame that holds stream position p (0: none)
FrameAt(p) ==
  IF \E j \in 1..Len(srv_sent) : FrameEnd(j - 1) < p /\ p <= FrameEnd(j)
  THEN CHOOSE j \in 1..Len(srv_sent) : FrameEnd(j - 1) < p /\ p <= FrameEnd(j)
  ELSE 0

\* index of the response frame with header h (0: none)
FrameOf(h) ==
  IF \E j \in 1..Len(srv_sent) : srv_sent[j].header = h
  THEN CHOOSE j \in 1..Len(srv_sent) : srv_sent[j].header = h
  ELSE 0

Want(t) == Header(arg[t].cmd, arg[t].id)

Reading(t) == pc[t] \in {"try_read", "blk_read"}

Peeking(t) == pc[t] \in {"try_peek", "blk_peek"}

\* thread t's receive has ended with a payload
Received(t) == arg[t].op \in ReceiveOps /\ ret[t].st \in {"true", "value"}

TypeOK ==
  /\ tcp_mutex_ \in {0} \cup Threads
  /\ ncalls \in 0..MaxSends
  /\ Len(sent) <= ncalls
  /\ nread + Len(tcp_in) + Len(net) <= Len(Stream)
  /\ \A t \in Threads : pc[t] \in {"idle", "send", "try_peek", "try_read", "try_handler", "blk_loop",
                                   "blk_peek", "blk_read", "udp_try", "udp_blk",
                                   "udp_send"}

(***************************************************************************)
(* C1 -- identifiers returned by tcpSendRequest.                           *)
(***************************************************************************)
SentId(i) == sent[i].header.command_id

\* C1 (as claimed): the identifiers returned are pairwise distinct and, in the
\* order the requests were written to the stream, each is exactly 1 greater
\* than the previous one.
C1_ConsecutiveDistinct ==
  \A i \in 1..Len(sent) : \A j \in 1..Len(sent) :
    /\ (i < j => SentId(i) # SentId(j))
    /\ (j = i + 1 => IsSucc32(SentId(i), SentId(j)))

\* C1 (amended): every identifier returned is the counter's value at the start
\* plus the number of earlier tcpSendRequest calls (failed ones included),
\* modulo 2^32; the counter advances by one per call, and the identifiers
\* returned are pairwise distinct while fewer than 2^32 calls were made.
C1_IdIsCallCount ==
  /\ command_id_ = Add32(id0, ncalls)
  /\ \A i \in 1..Len(sent) : SentId(i) = Add32(id0, sent[i].call)
  /\ \A i \in 1..Len(sent) : \A j \in 1..Len(sent) :
       (i < j => sent[i].call < sent[j].call /\ SentId(i) # SentId(j))
  /\ \A t \in Threads :
       (arg[t].op = "tcpSendRequest" /\ ret[t].st = "value") =>
         \E i \in 1..Len(sent) :
           /\ ret[t].val = <<SentId(i)>>
           /\ sent[i].header.command = arg[t].cmd

\* Two callers have sent; the counter wrapped between the two requests.
C1_Witness ==
  /\ \A t \in Threads : arg[t].op = "tcpSendRequest" /\ ret[t].st = "value"
  /\ Len(sent) = 2
  /\ SentId(1) = U32Max
  /\ SentId(2) = <<0, 0>>

(***************************************************************************)
(* C2 -- tcpReceiveResponse returning false.                               *)
(***************************************************************************)
\* the words in the socket are the unread words of what the server wrote
StreamIntact == tcp_in = SubSeq(Stream, nread + 1, nread + Len(tcp_in))

\* C2: a tcpReceiveResponse that returns false leaves the stream content and
\* the read position as they were and does not invoke the handler; the words
\* waiting in the socket stay the server's words from the read position on,
\* so the head frame is still whole for the call that names it.
C2_FalseLeavesStream ==
  /\ [][\A t \in Threads :
          (pc[t] = "try_peek" /\ pc'[t] = "idle") =>
            /\ ret'[t].st = "false"
            /\ ret'[t].hnd = <<>>
            /\ tcp_in' = tcp_in
            /\ nread' = nread]_vars
  /\ [](StreamIntact /\ ((\A t \in Threads : ~Reading(t)) /\ tcp_in # <<>>
                           => \E j \in 0..Len(srv_sent) : nread = FrameEnd(j)))

\* Thread 1 asked for the second frame while the first was at the head and got
\* false; thread 2 then named the head frame and its handler got the payload.
C2_Witness ==
  /\ Len(srv_sent) = 2
  /\ arg[1].op = "tcpReceiveResponse" /\ ret[1].st = "false"
  /\ Want(1) = srv_sent[2].header
  /\ arr0[1] >= FrameEnd(1)
  /\ arg[2].op = "tcpReceiveResponse" /\ ret[2].st = "true"
  /\ Want(2) = srv_sent[1].header
  /\ ret[2].hnd = <<srv_sent[1].payload>>
  /\ nread = FrameEnd(1)

(***************************************************************************)
(* C3 -- two concurrent waiters.                                           *)
(***************************************************************************)
\* C3: a waiter that tcpBlockingReceiveResponse has returned to holds the
\* payload of the response the server wrote under the waiter's own kind and
\* identifier, and no response is handed to two callers.
C3_OwnResponse ==
  /\ \A t \in Threads :
       (arg[t].op = "tcpBlockingReceiveResponse" /\ ret[t].st = "value") =>
         /\ FrameOf(Want(t)) # 0
         /\ ret[t].val = srv_sent[FrameOf(Want(t))].payload
  /\ \A t \in Threads : \A u \in Threads :
       (t # u /\ Received(t) /\ Received(u)) => Want(t) # Want(u)

\* A was sent first and B second, both responses were in the socket before
\* either waiter called, and each waiter has its own payload.
C3_Witness ==
  /\ Len(sent) = 2 /\ Len(srv_sent) = 2
  /\ \A t \in Threads :
       /\ arg[t].op = "tcpBlockingReceiveResponse"
       /\ ret[t].st = "value"
       /\ arr0[t] = FrameEnd(2)
  /\ Want(1) = sent[2].header /\ Want(2) = sent[1].header
  /\ ret[1].val = Payload(sent[2].header.command, sent[2].call)
  /\ ret[2].val = Payload(sent[1].header.command, sent[1].call)
  /\ ret[1].val # ret[2].val

(***************************************************************************)
(* C4 -- frames leave the stream in order, taken only by their own call.   *)
(***************************************************************************)
\* C4: words leave the stream only from its head, in the order the server
\* wrote them, and only through a call that holds the lock, is reading, and
\* whose kind and identifier are the header of the frame the words belong to.
C4_OnlyOwnFrame ==
  [][nread' # nread =>
       /\ nread' > nread
       /\ tcp_in' = Drop(tcp_in, nread' - nread)
       /\ \E t \in Threads :
            /\ tcp_mutex_ = t
            /\ Reading(t)
            /\ buf'[t] = buf[t] \o SubSeq(Stream, nread + 1, nread')
            /\ FrameAt(nread + 1) # 0
            /\ srv_sent[FrameAt(nread + 1)].header = Want(t)
            /\ FrameAt(nread') = FrameAt(nread + 1)]_vars

\* The response to the second request was written first; a call for the first
\* request was turned away, and the frames were then taken in server order.
C4_Witness ==
  /\ Len(sent) = 2 /\ Len(srv_sent) = 2
  /\ srv_sent[1].header = sent[2].header
  /\ nread = FrameEnd(2)
  /\ \A t \in Threads : Received(t)
  /\ Want(1) = srv_sent[1].header
  /\ Want(2) = srv_sent[2].header
  /\ arr0[2] >= FrameEnd(1)

(***************************************************************************)
(* Scheduling assumed for the progress claims: a thread inside an operation*)
(* keeps running, a thread that keeps finding the mutex free gets it, and  *)
(* words in flight on an open connection arrive.  Callers need not call,   *)
(* the server need not answer.                                             *)
(***************************************************************************)
Fairness ==
  /\ WF_vars(ServerDeliver)
  /\ \A t \in Threads :
       /\ SF_vars(tcpBlockingReceiveResponse_lock(t))
       /\ WF_vars(tcpBlockingReceiveResponse_peek(t))
       /\ WF_vars(tcpBlockingReceiveResponse_read(t))
       /\ WF_vars(tcpReceiveResponse_peek(t))
       /\ WF_vars(tcpReceiveResponse_read(t))
       /\ WF_vars(tcpReceiveResponse_handler(t))

\* The progress claims are about receiving: they are checked from the states
\* in which two requests, one of each kind, have been sent, with the receive
\* operations and the server as the steps.
SentTwo ==
  /\ id0 \in StartIds
  /\ command_id_ = Add32(id0, 2)
  /\ ncalls = 2
  /\ sent = <<[header |-> Header(1, id0), payload |-> Request(RequestArgs(1)),
                call |-> 0],
              [header |-> Header(2, Add32(id0, 1)), payload |-> Request(RequestArgs(2)),
                call |-> 1]>>
  /\ tcp_mutex_ = 0
  /\ udp_mutex_ = 0
  /\ srv_sent = <<>>
  /\ net = <<>>
  /\ tcp_in = <<>>
  /\ nread = 0
  /\ tcp_closed = FALSE
  /\ udp_in = <<>>
  /\ udp_seq = 0
  /\ pc = [t \in Threads |-> "idle"]
  /\ arg = [t \in Threads |-> NoArg]
  /\ buf = [t \in Threads |-> <<>>]
  /\ out = [t \in Threads |-> <<>>]
  /\ ret = [t \in Threads |-> NoRet]
  /\ arr0 = [t \in Threads |-> 0]
  /\ app = [t \in Threads |-> NoApp]
  /\ ri_version = [t \in Threads |-> 0]
  /\ storage = NoFile
  /\ raw = <<>>
  /\ fault = "none"
  /\ udp_out = <<>>

ReceiveNext ==
  \/ TcpServer
  \/ \E t \in Threads :
       \/ \E h \in Issued : tcpReceiveResponse_lock(t, h.command, h.command_id)
       \/ tcpReceiveResponse_peek(t)
       \/ tcpReceiveResponse_read(t)
       \/ tcpReceiveResponse_handler(t)
       \/ \E h \in Issued : tcpBlockingReceiveResponse_call(t, h.command, h.command_id)
       \/ tcpBlockingReceiveResponse_lock(t)
       \/ tcpBlockingReceiveResponse_peek(t)
       \/ tcpBlockingReceiveResponse_read(t)

FairSpec == SentTwo /\ [][ReceiveNext]_vars /\ Fairness

(***************************************************************************)
(* C5 -- tcpBlockingReceiveResponse blocks until its frame arrives.        *)
(***************************************************************************)
Waiting(t) == pc[t] \in {"blk_loop", "blk_peek", "blk_read"}

\* the response under t's kind and identifier is whole in the socket
InSocket(t) ==
  /\ FrameOf(Want(t)) # 0
  /\ nread <= FrameEnd(FrameOf(Want(t)) - 1)
  /\ FrameEnd(FrameOf(Want(t))) <= nread + Len(tcp_in)

\* ... and it is the frame at the head of the stream
AtHead(t) == InSocket(t) /\ nread = FrameEnd(FrameOf(Want(t)) - 1)

\* the payload t got is one the server had written and t's call removed
NotEarly(t) ==
  (arg[t].op = "tcpBlockingReceiveResponse" /\ ret[t].st = "value") =>
    /\ FrameOf(Want(t)) # 0
    /\ FrameEnd(FrameOf(Want(t))) <= nread

\* another call has ended with the response t is waiting for
TakenByOther(t) == \E u \in Threads \ {t} : Received(u) /\ Want(u) = Want(t)

\* C5 (as claimed): once a frame matching the waiter's kind and identifier
\* has arrived on the stream, tcpBlockingReceiveResponse eventually returns
\* (read in the claim's favour: or another call for the same response has
\* taken the frame).
C5_ArrivedThenReturns ==
  \A t \in Threads :
    (Waiting(t) /\ InSocket(t)) ~> (pc[t] = "idle" \/ TakenByOther(t))

\* C5 (amended): once the matching frame has arrived and is at the head of
\* the stream (every earlier frame has been removed), the call eventually
\* returns, unless another call naming the same kind and identifier takes the
\* frame; and the call never returns a payload before the frame has arrived.
C5_AtHeadThenReturns ==
  /\ \A t \in Threads :
       (Waiting(t) /\ AtHead(t)) ~>
         (pc[t] = "idle" \/ TakenByOther(t))
  /\ [](\A t \in Threads : NotEarly(t))

\* A waiter started with a frame for the other request at the head, and has
\* returned with its own payload after that frame was taken.
C5_Witness ==
  /\ Len(srv_sent) = 2
  /\ arg[1].op = "tcpBlockingReceiveResponse" /\ ret[1].st = "value"
  /\ Want(1) = srv_sent[2].header
  /\ arr0[1] = FrameEnd(1)
  /\ ret[1].val = srv_sent[2].payload
  /\ nread = FrameEnd(2)

(***************************************************************************)
(* C6 -- a matching receive takes exactly one frame.                       *)
(***************************************************************************)
\* the header at the head of the socket is the one t asks for
HeadIs(t) ==
  /\ Len(tcp_in) >= HeaderSize
  /\ tcp_in[1] = W(arg[t].cmd)
  /\ tcp_in[2] = arg[t].id

\* C6: with the matching frame at the head, the peek leads on to the read, and
\* the receive that then ends with a payload has removed exactly that frame,
\* header and payload and nothing after it; tcpBlockingReceiveResponse
\* returns the payload words the server wrote, tcpReceiveResponse passes
\* them to the handler once and returns true.
C6_ExactFrame ==
  [][\A t \in Threads :
       /\ (Peeking(t) /\ HeadIs(t) /\ pc'[t] # pc[t]) => Reading(t)'
       /\ (pc[t] \in {"blk_read", "try_handler"} /\ pc'[t] = "idle"
             /\ ret'[t].st # "NetworkException") =>
            /\ FrameOf(Want(t)) # 0
            /\ nread' = FrameEnd(FrameOf(Want(t)))
            /\ nread' - Len(buf'[t]) = FrameEnd(FrameOf(Want(t)) - 1)
            /\ buf'[t] = ResponseWords(srv_sent[FrameOf(Want(t))])
            /\ tcp_in' = Drop(tcp_in, nread' - nread)
            /\ (pc[t] = "blk_read" =>
                  ret'[t] = [st |-> "value", hnd |-> <<>>,
                             val |-> srv_sent[FrameOf(Want(t))].payload])
            /\ (pc[t] = "try_handler" =>
                  ret'[t] = [st |-> "true", val |-> <<>>,
                             hnd |-> <<srv_sent[FrameOf(Want(t))].payload>>])]_vars

\* Both kinds of receive have ended: thread 1's handler got the first frame's
\* payload, thread 2 was returned the second frame's, the socket is empty.
C6_Witness ==
  /\ Len(srv_sent) = 2
  /\ arg[1].op = "tcpReceiveResponse" /\ ret[1].st = "true"
  /\ ret[1].hnd = <<srv_sent[1].payload>>
  /\ arg[2].op = "tcpBlockingReceiveResponse" /\ ret[2].st = "value"
  /\ ret[2].val = srv_sent[2].payload
  /\ srv_sent[1].header.command # srv_sent[2].header.command
  /\ arr0[1] = FrameEnd(2)
  /\ nread = FrameEnd(2)

(***************************************************************************)
(* C7 -- the peer closes while a caller is inside a receive.               *)
(***************************************************************************)
\* C7 (as claimed): with the connection closed and no header left to read, a
\* receive attempt ends the call in a network failure; it neither reports
\* "no response yet" nor goes round the loop again.
C7_ClosedFails ==
  [][\A t \in Threads :
       (Peeking(t) /\ tcp_closed /\ Len(tcp_in) < HeaderSize /\ pc'[t] # pc[t]) =>
         (pc'[t] = "idle" /\ ret'[t].st = "NetworkException")]_vars

(***************************************************************************)
(* C8 -- the channel closes in the middle of a frame.                      *)
(***************************************************************************)
\* the payload t's receive ended with
ReceivedPayload(t) == IF ret[t].st = "value" THEN ret[t].val ELSE ret[t].hnd[1]

\* the words of the frame t asked for
WholeFrame(t) == HeaderSize + ResponseSize(arg[t].cmd)

\* C8: a receive that ends with a payload has read every word of the frame;
\* a receive that has matched a header and finds the channel closed with the
\* frame incomplete can only end in a NetworkException, and its next step is
\* never blocked.
C8_ShortFrameFails ==
  /\ [](\A t \in Threads : Received(t) =>
          /\ Len(buf[t]) = WholeFrame(t)
          /\ Len(ReceivedPayload(t)) = ResponseSize(arg[t].cmd))
  /\ [][\A t \in Threads :
          (Reading(t) /\ tcp_closed /\ Len(buf[t]) + Len(tcp_in) < WholeFrame(t)
             /\ pc'[t] = "idle") => ret'[t].st = "NetworkException"]_vars
  /\ [](\A t \in Threads :
          (Reading(t) /\ tcp_closed) =>
            IF pc[t] = "try_read" THEN ENABLED tcpReceiveResponse_read(t)
            ELSE ENABLED tcpBlockingReceiveResponse_read(t))

\* The close came after the header and part of the payload had been read.
C8_Witness ==
  \E t \in Threads :
    /\ arg[t].op \in ReceiveOps
    /\ ret[t].st = "NetworkException"
    /\ tcp_closed
    /\ Len(buf[t]) > HeaderSize
    /\ Len(buf[t]) < WholeFrame(t)

(***************************************************************************)
(* C9 -- which snapshot a streaming receive returns.                       *)
(***************************************************************************)
UdpReceiving(t) == pc[t] \in {"udp_try", "udp_blk"}

\* the snapshot a streaming receive that has ended handed to its caller
UdpResult(t) == IF arg[t].op = "udpReceive" THEN out[t] ELSE ret[t].val

\* C9 (as claimed): with several snapshots queued, a receive returns the most
\* recently arrived one and leaves no earlier snapshot to be returned later.
C9_NewestOnly ==
  [][\A t \in Threads :
       (/\ UdpReceiving(t)
        /\ Len(udp_in) >= 2
        /\ \A i \in 1..Len(udp_in) : Len(udp_in[i]) = SnapshotSize
        /\ pc'[t] = "idle"
        /\ ret'[t].st \in {"true", "value"}) =>
         /\ UdpResult(t)' = udp_in[Len(udp_in)]
         /\ udp_in' = <<>>]_vars

(***************************************************************************)
(* C10 -- udpReceive with nothing queued.                                  *)
(***************************************************************************)
\* C10: udpReceive never waits for a datagram; with nothing queued it returns
\* false, raises nothing, and leaves the output object and the queue as they
\* were; it returns true only together with taking one datagram off the
\* queue and storing a whole T of its words in the output.
C10_NoneWhenEmpty ==
  /\ [][\A t \in Threads :
          (pc[t] = "udp_try" /\ pc'[t] = "idle") =>
            /\ udp_in = <<>> => ret'[t].st = "false"
            /\ ret'[t].st = "false" => (out' = out /\ udp_in' = udp_in)
            /\ ret'[t].st = "true" =>
                 /\ udp_in # <<>>
                 /\ Len(Head(udp_in)) >= SnapshotSize
                 /\ udp_in' = Tail(udp_in)
                 /\ Len(out'[t]) = SnapshotSize
                 /\ out'[t] = SubSeq(Head(udp_in), 1, SnapshotSize)]_vars
  /\ [](\A t \in Threads : pc[t] = "udp_try" => ENABLED udpReceive_body(t))

\* Thread 1 took the only datagram ever sent with udpReceive, called again with
\* the queue empty and got false; its output object still holds the snapshot.
C10_Witness ==
  /\ udp_seq = 1
  /\ udp_in = <<>>
  /\ arg[1].op = "udpReceive"
  /\ ret[1].st = "false"
  /\ out[1] = Datagram(1, SnapshotSize)

(***************************************************************************)
(* C11 -- a queued datagram of the wrong size.                             *)
(***************************************************************************)
\* C11 (as claimed): a streaming receive that finds a datagram at the head of
\* the queue whose length is not the snapshot size ends in a
\* ProtocolException: the datagram is neither returned as a snapshot nor
\* answered with false.
C11_WrongSizeFails ==
  [][\A t \in Threads :
       (/\ UdpReceiving(t)
        /\ udp_in # <<>>
        /\ Len(Head(udp_in)) # SnapshotSize
        /\ pc'[t] = "idle") => ret'[t].st = "ProtocolException"]_vars

(***************************************************************************)
(* connect<T, kLibraryVersion>(network, ri_version): version negotiation.  *)
(* T::Response is (status, version), one word each.                        *)
(***************************************************************************)
kSuccess == 0

kIncompatibleLibraryVersion == 1

\* T::Status: the two statuses connect names and one it does not
Statuses == {kSuccess, kIncompatibleLibraryVersion, 2}

\* the template argument kLibraryVersion
kLibraryVersion == 3

\* the versions a server may report
ServerVersions == {4, 12}

\* a uint16_t field read out of a response word
Low16(w) == w[2]

DigitChars == <<"0", "1", "2", "3", "4", "5", "6", "7", "8", "9">>

RECURSIVE Dec(_)
\* operator<< of a uint16_t on a stringstream: the decimal digits
Dec(n) == IF n < 10 THEN <<DigitChars[n + 1]>> ELSE Dec(n \div 10) \o <<DigitChars[(n % 10) + 1]>>

Message_server(server, library) ==
  <<"libfranka: incompatible library version. ", "\n", "Server version: ">>
    \o Dec(server) \o <<"\n", "Library version: ">>

\* the text of the IncompatibleVersionException
Message(server, library) ==
  <<"libfranka: incompatible library version. ", "\n", "Server version: ">>
    \o Dec(server) \o <<"\n", "Library version: ">> \o Dec(library)

ConnectOutcome_lenient(status) ==
  IF status = kIncompatibleLibraryVersion THEN "IncompatibleVersionException" ELSE "ok"

\* switch (connect_response.status)
ConnectOutcome(status) ==
  IF status = kIncompatibleLibraryVersion THEN "IncompatibleVersionException"
  ELSE IF status = kSuccess THEN "ok"
  ELSE "ProtocolException"

\* The server answers connect request i with a status and its version.
ServerConnectReply(i, status, version) ==
  /\ ~tcp_closed
  /\ ~Answered(sent[i].header)
  /\ LET f == [header |-> sent[i].header, payload |-> <<W(status), W(version)>>]
     IN  /\ srv_sent' = Append(srv_sent, f)
         /\ net' = net \o ResponseWords(f)
  /\ UNCHANGED <<command_id_, id0, ncalls, tcp_mutex_, sent, tcp_in, nread,
                 tcp_closed, udpVars, pc, arg, buf, out, ret, arr0>>
  /\ UNCHANGED extVars

\* network.tcpSendRequest<T>(network.udpPort()): the call
connect_send(t) ==
  /\ app[t].at = "none"
  /\ arg[t].op = "none"
  /\ tcpSendRequest_lock(t, kConnect, <<W(udp_port_)>>)

\* uint32_t command_id = <what tcpSendRequest returned>; an exception of
\* tcpSendRequest leaves connect
connect_sent(t) ==
  /\ app[t].at = "none"
  /\ pc[t] = "idle"
  /\ arg[t].op = "tcpSendRequest"
  /\ app' = [app EXCEPT ![t] =
               IF ret[t].st = "value"
               THEN [app[t] EXCEPT !.op = "connect", !.at = "receive",
                                   !.id = ret[t].val[1]]
               ELSE [app[t] EXCEPT !.op = "connect", !.at = "done",
                                   !.res = ret[t].st]]
  /\ UNCHANGED <<tcpVars, udpVars, pc, arg, buf, out, ret, arr0, ri_version,
                 storage, raw, fault, udp_out>>

\* network.tcpBlockingReceiveResponse<T>(command_id): the call
connect_receive(t) ==
  /\ app[t].at = "receive"
  /\ arg[t].op = "tcpSendRequest"
  /\ tcpBlockingReceiveResponse_call(t, kConnect, app[t].id)

\* the switch on connect_response.status; an exception of
\* tcpBlockingReceiveResponse leaves connect
connect_switch(t) ==
  /\ app[t].at = "receive"
  /\ pc[t] = "idle"
  /\ arg[t].op = "tcpBlockingReceiveResponse"
  /\ IF ret[t].st = "value"
     THEN LET status == Low16(ret[t].val[1])
              version == Low16(ret[t].val[2])
              res == ConnectOutcome(status)
          IN  /\ app' = [app EXCEPT ![t] =
                           [app[t] EXCEPT
                              !.at = "done",
                              !.res = res,
                              !.msg = IF res = "IncompatibleVersionException"
                                      THEN Message(version, kLibraryVersion)
                                      ELSE <<>>]]
              /\ ri_version' = [ri_version EXCEPT ![t] =
                                  IF res = "ok" THEN version ELSE ri_version[t]]
     ELSE /\ app' = [app EXCEPT ![t] = [app[t] EXCEPT !.at = "done", !.res = ret[t].st]]
          /\ ri_version' = ri_version
  /\ UNCHANGED <<tcpVars, udpVars, pc, arg, buf, out, ret, arr0, storage, raw, fault,
                 udp_out>>

ConnectNext ==
  \/ \E i \in 1..Len(sent) : \E status \in Statuses : \E version \in ServerVersions :
       ServerConnectReply(i, status, version)
  \/ ServerDeliver
  \/ ServerClose
  \/ \E t \in Threads :
       \/ connect_send(t)
       \/ tcpSendRequest_send(t)
       \/ connect_sent(t)
       \/ connect_receive(t)
       \/ tcpBlockingReceiveResponse_lock(t)
       \/ tcpBlockingReceiveResponse_peek(t)
       \/ tcpBlockingReceiveResponse_read(t)
       \/ connect_switch(t)

\* connect is the first thing done with a Network: the counter is still 0
ConnectInit == Init /\ id0 = <<0, 0>>

ConnectSpec == ConnectInit /\ [][ConnectNext]_vars

(***************************************************************************)
(* C12 -- version negotiation.                                             *)
(***************************************************************************)
\* thread t's connect has ended
Connected(t) == app[t].op = "connect" /\ app[t].at = "done"

\* the response the server wrote to t's connect request
ConnectReply(t) == srv_sent[FrameOf(Header(kConnect, app[t].id))]

\* C12: a connect sends one request, of the connect kind and carrying the
\* local UDP port, and never a second one; it waits for the response under
\* the identifier tcpSendRequest returned; and once the response is in, the
\* outcome is a function of its status: success stores the version the server
\* wrote in *ri_version, incompatible raises IncompatibleVersionException,
\* any other status ProtocolException, both leaving *ri_version as it was.
C12_Negotiation ==
  /\ ncalls = Cardinality({t \in Threads : arg[t].op # "none" /\ pc[t] # "send"})
  /\ \A i \in 1..Len(sent) :
       /\ sent[i].header.command = kConnect
       /\ sent[i].payload = <<W(udp_port_)>>
  /\ \A t \in Threads :
       /\ app[t].at = "receive" =>
            /\ \E i \in 1..Len(sent) : sent[i].header = Header(kConnect, app[t].id)
            /\ arg[t].op = "tcpBlockingReceiveResponse" => Want(t) = Header(kConnect, app[t].id)
       /\ (Connected(t) /\ arg[t].op = "tcpBlockingReceiveResponse"
             /\ app[t].res # "NetworkException") =>
            /\ FrameOf(Header(kConnect, app[t].id)) # 0
            /\ LET status == Low16(ConnectReply(t).payload[1])
                   version == Low16(ConnectReply(t).payload[2])
               IN  /\ status = kSuccess =>
                         (app[t].res = "ok" /\ ri_version[t] = version)
                   /\ status = kIncompatibleLibraryVersion =>
                         (app[t].res = "IncompatibleVersionException" /\ ri_version[t] = 0)
                   /\ status \notin {kSuccess, kIncompatibleLibraryVersion} =>
                         (app[t].res = "ProtocolException" /\ ri_version[t] = 0)
       /\ (Connected(t) /\ app[t].res # "ok") => ri_version[t] = 0

\* Both outcomes side by side: thread 1 was accepted by a server of another
\* version than the library's, thread 2 was answered with a status connect
\* does not name.
C12_Witness ==
  /\ Connected(1) /\ app[1].res = "ok" /\ ri_version[1] = 4
  /\ Connected(2) /\ app[2].res = "ProtocolException" /\ ri_version[2] = 0
  /\ Low16(ConnectReply(2).payload[2]) = 12
  /\ Len(sent) = 2

(***************************************************************************)
(* C13 -- what the incompatible-version error reports.                     *)
(***************************************************************************)
\* the text s occurs in the message
Contains(msg, s) ==
  \E i \in 1..(Len(msg) - Len(s) + 1) : SubSeq(msg, i, i + Len(s) - 1) = s

\* C13: an IncompatibleVersionException raised by connect carries a message
\* in which the decimal form of the library version and the decimal form of
\* the version in the server's response both occur.
C13_BothVersions ==
  \A t \in Threads :
    (Connected(t) /\ app[t].res = "IncompatibleVersionException") =>
      /\ Contains(app[t].msg, Dec(kLibraryVersion))
      /\ Contains(app[t].msg, Dec(Low16(ConnectReply(t).payload[2])))
      /\ Low16(ConnectReply(t).payload[1]) = kIncompatibleLibraryVersion

\* Library version 3, server version 4: the message contains "3" and "4";
\* the other caller was rejected by a server of version 12.
C13_Witness ==
  /\ Connected(1) /\ app[1].res = "IncompatibleVersionException"
  /\ Low16(ConnectReply(1).payload[2]) = 4
  /\ Contains(app[1].msg, <<"3">>) /\ Contains(app[1].msg, <<"4">>)
  /\ Connected(2) /\ app[2].res = "IncompatibleVersionException"
  /\ Contains(app[2].msg, <<"1", "2">>)

(***************************************************************************)
(* C14 -- what a failure leaves behind.                                    *)
(***************************************************************************)
\* thread u's last operation on the Network ended in a failure
Failed(u) ==
  pc[u] = "idle" /\ ret[u].st \in {"NetworkException", "ProtocolException"}

\* C14 (as claimed): once an operation on the Network has failed with a
\* network or protocol failure, no operation that another thread begins
\* after it on the same Network ends with a result.
C14_FailureTerminal ==
  [][\A t \in Threads : \A u \in Threads \ {t} :
       (Failed(u) /\ UdpReceiving(t) /\ pc'[t] = "idle") =>
         ret'[t].st \notin {"true", "value"}]_vars

(***************************************************************************)
(* Both channels in use at once.  The run starts with one request sent and *)
(* its response in the socket; callers send further requests, receive on   *)
(* the reliable channel (a request never answered keeps its waiter in the  *)
(* loop), and send and receive snapshots on the streaming channel.         *)
(***************************************************************************)
OneAnswered ==
  /\ id0 = <<0, 0>>
  /\ command_id_ = Inc32(id0)
  /\ ncalls = 1
  /\ sent = <<[header |-> Header(2, id0), payload |-> Request(RequestArgs(2)),
               call |-> 0]>>
  /\ srv_sent = <<ResponseTo(sent[1])>>
  /\ net = <<>>
  /\ tcp_in = ResponseWords(ResponseTo(sent[1]))
  /\ nread = 0
  /\ tcp_closed = FALSE
  /\ tcp_mutex_ = 0
  /\ udp_mutex_ = 0
  /\ udp_in = <<>>
  /\ udp_seq = 0
  /\ pc = [t \in Threads |-> "idle"]
  /\ arg = [t \in Threads |-> NoArg]
  /\ buf = [t \in Threads |-> <<>>]
  /\ out = [t \in Threads |-> <<>>]
  /\ ret = [t \in Threads |-> NoRet]
  /\ arr0 = [t \in Threads |-> 0]
  /\ app = [t \in Threads |-> NoApp]
  /\ ri_version = [t \in Threads |-> 0]
  /\ storage = NoFile
  /\ raw = <<>>
  /\ fault = "none"
  /\ udp_out = <<>>

ChannelsNext ==
  \/ TcpClient
  \/ UdpServerSend(SnapshotSize)
  \/ \E t \in Threads :
       \/ udpReceive_lock(t)
       \/ udpReceive_body(t)
       \/ udpBlockingReceive_lock(t)
       \/ udpBlockingReceive_recv(t)
       \/ udpSend_lock(t)
       \/ udpSend_send(t)

ChannelsSpec == OneAnswered /\ [][ChannelsNext]_vars

(***************************************************************************)
(* C15 -- one lock per channel.                                            *)
(***************************************************************************)
\* positions of a thread inside an operation of the reliable channel, from
\* its lock to its unlock
TcpSection == {"send", "try_peek", "try_read", "try_handler", "blk_peek", "blk_read"}

\* positions at which a thread is at a socket call of the streaming channel
UdpSection == {"udp_try", "udp_blk", "udp_send"}

\* C15: a thread is at a TCP socket call exactly while it owns tcp_mutex_
\* and at a UDP socket call exactly while it owns udp_mutex_, so no thread
\* owns both and at most one thread is at a socket of either channel; and
\* whatever the reliable channel is doing, an idle thread can enter
\* udpReceive, udpBlockingReceive and udpSend as soon as udp_mutex_ is free,
\* and a thread inside one of them can always take its step.
C15_SeparateLocks ==
  /\ \A t \in Threads :
       /\ pc[t] \in TcpSection <=> tcp_mutex_ = t
       /\ pc[t] \in UdpSection <=> udp_mutex_ = t
       /\ ~(tcp_mutex_ = t /\ udp_mutex_ = t)
  /\ \A t \in Threads : \A u \in Threads \ {t} :
       /\ ~(pc[t] \in TcpSection /\ pc[u] \in TcpSection)
       /\ ~(pc[t] \in UdpSection /\ pc[u] \in UdpSection)
  /\ \A t \in Threads :
       (pc[t] = "idle" /\ udp_mutex_ = 0) =>
         /\ ENABLED udpReceive_lock(t)
         /\ ENABLED udpBlockingReceive_lock(t)
         /\ Len(udp_out) < MaxUdpSends => ENABLED udpSend_lock(t)
  /\ \A t \in Threads :
       /\ pc[t] = "udp_try" => ENABLED udpReceive_body(t)
       /\ pc[t] = "udp_blk" => ENABLED udpBlockingReceive_recv(t)
       /\ pc[t] = "udp_send" => ENABLED udpSend_send(t)

\* Thread 1 waits for a response that has not come and holds tcp_mutex_ for
\* its peek; thread 2, which sent that request, is inside udpReceive with a
\* snapshot queued.
C15_Witness ==
  /\ pc[1] = "blk_peek" /\ tcp_mutex_ = 1
  /\ FrameOf(Want(1)) = 0
  /\ pc[2] = "udp_try" /\ udp_mutex_ = 2
  /\ udp_in # <<>>
  /\ Len(udp_out) = 1

(***************************************************************************)
(* LibraryDownloader::LibraryDownloader(network).  The response of         *)
(* LoadModelLibrary is (status, size), one word each; size raw words of    *)
(* the library follow it on the stream.                                    *)
(***************************************************************************)
kLoadModelLibrary == 3

\* LoadModelLibrary::Status: kSuccess and one other
LibraryStatuses == {kSuccess, 1}

MaxLibrary == 3

\* the words a library is made of: it is opaque binary, and a word of it may
\* equal a word of a header
LibraryWords == {W(1), W(2)}

\* the libraries of at most MaxLibrary words
Libraries == UNION {[1..n -> LibraryWords] : n \in 0..MaxLibrary}

\* the threads that construct a LibraryDownloader
Downloaders == {1}

IsSuccess_any(status) == TRUE

\* !(response.status != LoadModelLibrary::Status::kSuccess)
IsSuccess(status) == status = kSuccess

BufferSize_short(size) == IF size = 0 THEN 0 ELSE size - 1

\* std::vector<uint8_t> buffer(response.size)
BufferSize(size) == size

\* The server answers request i with a status and the size it declares, and
\* writes the raw words of a library behind the response.
ServerLibraryReply(i, status, size) ==
  /\ ~tcp_closed
  /\ ~Answered(sent[i].header)
  /\ sent[i].header.command = kLoadModelLibrary
  /\ \E lib \in Libraries :
       LET f == [header |-> sent[i].header, payload |-> <<W(status), W(size)>>]
       IN  /\ srv_sent' = Append(srv_sent, f)
           /\ net' = net \o ResponseWords(f) \o lib
           /\ raw' = lib
  /\ UNCHANGED <<command_id_, id0, ncalls, tcp_mutex_, sent, tcp_in, nread,
                 tcp_closed, udpVars, pc, arg, buf, out, ret, arr0>>
  /\ UNCHANGED <<app, ri_version, storage, fault, udp_out>>

\* network.tcpSendRequest<LoadModelLibrary>(kX64, kLinux): the call
download_send(t) ==
  /\ app[t].at = "none"
  /\ arg[t].op = "none"
  /\ tcpSendRequest_lock(t, kLoadModelLibrary, <<"kX64", "kLinux">>)

\* uint32_t command_id = <what tcpSendRequest returned>; an exception of
\* tcpSendRequest leaves the constructor
download_sent(t) ==
  /\ app[t].at = "none"
  /\ pc[t] = "idle"
  /\ arg[t].op = "tcpSendRequest"
  /\ app' = [app EXCEPT ![t] =
               IF ret[t].st = "value"
               THEN [app[t] EXCEPT !.op = "LibraryDownloader", !.at = "receive",
                                   !.id = ret[t].val[1]]
               ELSE [app[t] EXCEPT !.op = "LibraryDownloader", !.at = "done",
                                   !.res = ret[t].st]]
  /\ UNCHANGED <<tcpVars, udpVars, pc, arg, buf, out, ret, arr0, ri_version,
                 storage, raw, fault, udp_out>>

\* network.tcpBlockingReceiveResponse<LoadModelLibrary>(command_id): the call
download_receive(t) ==
  /\ app[t].at = "receive"
  /\ arg[t].op = "tcpSendRequest"
  /\ tcpBlockingReceiveResponse_call(t, kLoadModelLibrary, app[t].id)

\* the status test, then the buffer of response.size bytes; an exception of
\* tcpBlockingReceiveResponse leaves the constructor
download_status(t) ==
  /\ app[t].at = "receive"
  /\ pc[t] = "idle"
  /\ arg[t].op = "tcpBlockingReceiveResponse"
  /\ app' = [app EXCEPT ![t] =
               IF ret[t].st # "value"
               THEN [app[t] EXCEPT !.at = "done", !.res = ret[t].st]
               ELSE IF ~IsSuccess(Low16(ret[t].val[1]))
               THEN [app[t] EXCEPT !.at = "done", !.res = "ModelException",
                                   !.msg = <<"Server reports error">>]
               ELSE [app[t] EXCEPT !.at = "raw",
                                   !.size = BufferSize(Low16(ret[t].val[2]))]]
  /\ buf' = [buf EXCEPT ![t] = <<>>]
  /\ UNCHANGED <<tcpVars, udpVars, pc, arg, out, ret, arr0, ri_version, storage, raw,
                 fault, udp_out>>

\* network.tcpReceiveIntoBuffer(buffer.data(), buffer.size()): as the other
\* public receive operations it takes tcp_mutex_ for the whole of its read
download_lock(t) ==
  /\ app[t].at = "raw"
  /\ tcp_mutex_ = 0
  /\ tcp_mutex_' = t
  /\ UNCHANGED <<command_id_, id0, ncalls, sent, srv_sent, net, tcp_in, nread,
                 tcp_closed, udpVars, pc, arg, buf, out, ret, arr0>>
  /\ UNCHANGED extVars

\* tcpReceiveIntoBufferUnsafe(buffer, read_size), one receiveBytes per step.
\* It returns with the buffer full; its exception on a closed, drained stream
\* is caught by catch (const std::exception&) and replaced by
\* ModelException("Cannot save model library").  The mutex is released on
\* either way out.
download_read(t) ==
  /\ app[t].at = "raw"
  /\ tcp_mutex_ = t
  /\ Len(buf[t]) >= app[t].size \/ tcp_in # <<>> \/ tcp_closed \/ fault = "tcp"
  /\ IF Len(buf[t]) >= app[t].size \/ (~ReadFails(tcp_in, tcp_closed) /\ fault # "tcp")
     THEN LET k == ReadCount(tcp_in, buf[t], app[t].size)
              b == buf[t] \o Take(tcp_in, k)
          IN  /\ tcp_in' = Drop(tcp_in, k)
              /\ nread' = nread + k
              /\ buf' = [buf EXCEPT ![t] = b]
              /\ app' = [app EXCEPT ![t] =
                           IF Len(b) >= app[t].size
                           THEN [app[t] EXCEPT !.at = "write"]
                           ELSE app[t]]
              /\ tcp_mutex_' = IF Len(b) >= app[t].size THEN 0 ELSE t
     ELSE /\ app' = [app EXCEPT ![t] =
                       [app[t] EXCEPT !.at = "done", !.res = "ModelException",
                                      !.msg = <<"Cannot save">>]]
          /\ tcp_mutex_' = 0
          /\ UNCHANGED <<tcp_in, nread, buf>>
  /\ UNCHANGED <<command_id_, id0, ncalls, sent, srv_sent, net,
                 tcp_closed, udpVars, pc, arg, out, ret, arr0, ri_version, storage, raw,
                 fault, udp_out>>

\* std::ofstream(path()) and write(buffer.data(), buffer.size()).  The
\* stream raises nothing: when the file cannot be opened nothing is written,
\* when the write fails part of the buffer may be; the constructor returns
\* normally either way.
download_write(t) ==
  /\ app[t].at = "write"
  /\ \E opened \in BOOLEAN : \E n \in 0..Len(buf[t]) :
       /\ storage' = IF opened THEN [exists |-> TRUE, data |-> Take(buf[t], n)]
                     ELSE storage
       /\ app' = [app EXCEPT ![t] =
                    [app[t] EXCEPT !.at = "done",
                                   !.res = "ok",
                                   !.msg = IF opened /\ n = Len(buf[t])
                                           THEN <<>> ELSE <<"stream failed">>]]
  /\ UNCHANGED <<tcpVars, udpVars, pc, arg, buf, out, ret, arr0, ri_version, raw, fault,
                 udp_out>>

DownloadNext ==
  \/ \E i \in 1..Len(sent) : \E status \in LibraryStatuses : \E size \in 0..MaxLibrary :
       ServerLibraryReply(i, status, size)
  \/ ServerDeliver
  \/ ServerClose
  \/ \E t \in Downloaders :
       \/ download_send(t)
       \/ tcpSendRequest_send(t)
       \/ download_sent(t)
       \/ download_receive(t)
       \/ tcpBlockingReceiveResponse_lock(t)
       \/ tcpBlockingReceiveResponse_peek(t)
       \/ tcpBlockingReceiveResponse_read(t)
       \/ download_status(t)
       \/ download_lock(t)
       \/ download_read(t)
       \/ download_write(t)

DownloadSpec == Init /\ [][DownloadNext]_vars

(***************************************************************************)
(* C16 -- the library is written only once it is complete.                 *)
(***************************************************************************)
\* the size the server declared to t
Declared(t) == Low16(srv_sent[FrameOf(Header(kLoadModelLibrary, app[t].id))].payload[2])

\* the first Declared(t) of the raw words behind t's response
Library(t) == Take(raw, Declared(t))

\* t's constructor has returned or thrown
Downloaded(t) == app[t].op = "LibraryDownloader" /\ app[t].at = "done"

\* C16: the file is touched only by a downloader whose buffer holds all of
\* the declared raw words, and holds nothing but words of that buffer; with
\* the declared words all supplied and the stream writing without error the
\* file is exactly those words; and a downloader whose stream closed before
\* the declared words had arrived fails and leaves no file.
C16_WriteAfterAll ==
  /\ [](\A t \in Downloaders :
          /\ app[t].at = "write" =>
               (buf[t] = Library(t) /\ Len(buf[t]) = Declared(t))
          /\ (Downloaded(t) /\ app[t].res = "ok") =>
               /\ buf[t] = Library(t)
               /\ Len(buf[t]) = Declared(t)
               /\ storage.data = Take(buf[t], Len(storage.data))
               /\ app[t].msg = <<>> =>
                    (storage.exists /\ storage.data = Library(t))
          /\ ~(Downloaded(t) /\ app[t].res = "ok") => storage = NoFile)
  /\ [][\A t \in Downloaders :
          (/\ app[t].at = "raw"
           /\ tcp_closed
           /\ Len(buf[t]) + Len(tcp_in) < app[t].size
           /\ app'[t].at # "raw") =>
            /\ app'[t].at = "done"
            /\ app'[t].res # "ok"
            /\ storage' = NoFile]_vars

\* The server declared three words; the stream closed after the downloader
\* had read some of them: the constructor failed and there is no file.
C16_Witness ==
  /\ Downloaded(1)
  /\ app[1].res # "ok"
  /\ app[1].size = MaxLibrary
  /\ Len(buf[1]) > 0
  /\ Len(buf[1]) < MaxLibrary
  /\ tcp_closed
  /\ storage = NoFile

(***************************************************************************)
(* C17 -- which error a failed download reports.                           *)
(***************************************************************************)
\* C17 (as claimed): the "cannot save" error is raised only after the whole
\* declared payload has been received, that is only for a failure of the
\* file; a download that fails while the payload is being read reports a
\* NetworkException.
C17_DistinctErrors ==
  \A t \in Downloaders :
    /\ (Downloaded(t) /\ app[t].msg = <<"Cannot save">>) => Len(buf[t]) = app[t].size
    /\ (Downloaded(t) /\ app[t].size > 0 /\ Len(buf[t]) < app[t].size) =>
         app[t].res = "NetworkException"

(***************************************************************************)
(* Socket errors.  From the moment a socket is in error every call on it   *)
(* raises a Poco exception.                                                *)
(***************************************************************************)
Sockets == {"tcp", "udp"}

SocketFault(s) ==
  /\ fault = "none"
  /\ fault' = s
  /\ UNCHANGED <<tcpVars, udpVars, pc, arg, buf, out, ret, arr0, app, ri_version,
                 storage, raw, udp_out>>

FaultNext ==
  \/ ChannelsNext
  \/ \E s \in Sockets : SocketFault(s)

FaultSpec == OneAnswered /\ [][FaultNext]_vars

(***************************************************************************)
(* C18 -- what becomes of a socket error.                                  *)
(***************************************************************************)
\* C18 (as claimed): an operation that makes a call on a socket in error
\* ends there, and ends in a NetworkException: it neither goes on nor hands
\* the caller anything else.
C18_FaultSurfaces ==
  [][\A t \in Threads :
       (\/ fault = "tcp" /\ pc[t] \in TcpSection \ {"try_handler"}
        \/ fault = "udp" /\ pc[t] \in UdpSection) /\ pc'[t] # pc[t] =>
         (pc'[t] = "idle" /\ ret'[t].st = "NetworkException")]_vars

(***************************************************************************)
(* C19 -- the counter and the request frame under tcp_mutex_.              *)
(***************************************************************************)
\* x < y as unsigned 32-bit numbers
Less32(x, y) == x[1] < y[1] \/ (x[1] = y[1] /\ x[2] < y[2])

\* the counter moves only in the step of the thread that owns tcp_mutex_ and
\* is inside tcpSendRequest, by one, and the request written in that step is
\* one whole frame appended to the stream under the counter's old value
CounterUnderLock ==
  /\ [](\A t \in Threads : pc[t] = "send" => tcp_mutex_ = t)
  /\ [][(command_id_' # command_id_ \/ sent' # sent) =>
          \E t \in Threads :
            /\ tcp_mutex_ = t
            /\ pc[t] = "send"
            /\ command_id_' = Inc32(command_id_)
            /\ \/ sent' = sent
               \/ sent' = Append(sent, [header |-> Header(arg[t].cmd, command_id_),
                                        payload |-> Request(arg[t].req),
                                        call |-> ncalls])]_vars

\* C19 (as claimed): the counter is read and incremented, and the frame is
\* written, under tcp_mutex_; the request frames on the stream are whole and
\* stand in increasing order of their identifiers.
C19_IncreasingOrder ==
  /\ CounterUnderLock
  /\ [](\A i \in 1..Len(sent) : \A j \in 1..Len(sent) :
          i < j => Less32(SentId(i), SentId(j)))

\* C19 (amended): the counter is read and incremented, and the frame is
\* written, under tcp_mutex_; the request frames on the stream are whole and
\* stand in the order in which their identifiers were assigned, each
\* identifier being the one before it plus the number of calls in between,
\* modulo 2^32.
C19_AssignmentOrder ==
  /\ CounterUnderLock
  /\ [](\A i \in 1..Len(sent) : \A j \in 1..Len(sent) :
          i < j =>
            /\ sent[i].call < sent[j].call
            /\ SentId(j) = Add32(SentId(i), sent[j].call - sent[i].call))

\* Thread 1's request went out under 2^32 - 1; thread 2 is inside
\* tcpSendRequest with the lock, about to take identifier 0.
C19_Witness ==
  /\ Len(sent) = 1
  /\ SentId(1) = U32Max
  /\ arg[1].op = "tcpSendRequest" /\ ret[1].st = "value"
  /\ pc[2] = "send" /\ tcp_mutex_ = 2
  /\ command_id_ = <<0, 0>>

(***************************************************************************)
(* C20 -- the lock in the loop of tcpBlockingReceiveResponse.              *)
(***************************************************************************)
\* C20: a waiter owns tcp_mutex_ exactly from lock.lock() to the end of the
\* attempt; a peek is never blocked, and one that does not match releases
\* the mutex before the next attempt, so that between attempts any other
\* thread's lock step can be taken; a peek that matches keeps the mutex, the
\* waiter owns it until its read has ended, and in between no other thread
\* peeks and nothing but the waiter's own read takes words off the stream.
C20_LockInLoop ==
  /\ [](\A t \in Threads :
          /\ pc[t] = "blk_loop" => tcp_mutex_ # t
          /\ pc[t] \in {"blk_peek", "blk_read"} => tcp_mutex_ = t
          /\ pc[t] = "blk_peek" => ENABLED tcpBlockingReceiveResponse_peek(t)
          /\ pc[t] = "blk_read" => \A u \in Threads \ {t} : ~Peeking(u) /\ ~Reading(u)
          /\ (pc[t] = "blk_loop" /\ tcp_mutex_ = 0) =>
               \A u \in Threads \ {t} :
                 /\ pc[u] = "blk_loop" => ENABLED tcpBlockingReceiveResponse_lock(u)
                 /\ pc[u] = "idle" =>
                      ENABLED tcpReceiveResponse_lock(u, arg[t].cmd, arg[t].id)
                 /\ (pc[u] = "idle" /\ ncalls < MaxSends) =>
                      ENABLED tcpSendRequest_lock(u, 2, <<>>))
  /\ [][\A t \in Threads :
          /\ (pc[t] = "blk_peek" /\ pc'[t] = "blk_loop") => tcp_mutex_' = 0
          /\ (pc[t] = "blk_peek" /\ pc'[t] = "blk_read") =>
               (HeadIs(t) /\ tcp_mutex_' = t /\ tcp_in' = tcp_in)
          /\ (pc[t] = "blk_read" /\ pc'[t] = "blk_read") => tcp_mutex_' = t
          /\ (pc[t] = "blk_read" /\ pc'[t] = "idle") => tcp_mutex_' = 0
          /\ (pc[t] = "blk_read" /\ (tcp_in' # tcp_in \/ nread' # nread)) =>
               /\ Len(tcp_in') >= Len(tcp_in) => tcp_in' = Append(tcp_in, Head(net))
               /\ nread' # nread =>
                    buf'[t] = buf[t] \o SubSeq(tcp_in, 1, nread' - nread)]_vars

\* Thread 1 has matched its header and read part of its frame, the lock
\* still its own; thread 2 waits in the loop for the frame behind it.
C20_Witness ==
  /\ pc[1] = "blk_read" /\ tcp_mutex_ = 1
  /\ Len(buf[1]) > 0 /\ Len(buf[1]) < FrameSize(arg[1].cmd)
  /\ pc[2] = "blk_loop"
  /\ Want(2) # Want(1)
  /\ FrameOf(Want(2)) = 2
  /\ arr0[2] >= HeaderSize

(***************************************************************************)
(* C21 -- the order of the steps of a download.                            *)
(***************************************************************************)
\* the status the server answered t with
Status(t) == Low16(srv_sent[FrameOf(Header(kLoadModelLibrary, app[t].id))].payload[1])

\* t has been answered
Replied(t) == FrameOf(Header(kLoadModelLibrary, app[t].id)) # 0

\* the words taken off the stream behind the response frame
RawRead ==
  IF nread > FrameSize(kLoadModelLibrary) THEN nread - FrameSize(kLoadModelLibrary)
  ELSE 0

\* C21: the constructor sends one request, receives the response under the
\* identifier the send returned, tests its status and only then reads raw
\* words.  With a status other than success it ends in ModelException
\* "Server reports error", no raw word taken off the stream and no file
\* touched; with success it takes exactly the declared number of raw words,
\* the first ones behind the response, before it goes on to write.
C21_DownloadOrder ==
  /\ [](\A t \in Downloaders :
          /\ Len(sent) <= 1
          /\ app[t].at \in {"none", "receive"} => (RawRead = 0 /\ storage = NoFile)
          /\ app[t].at = "receive" =>
               (Len(sent) = 1 /\ sent[1].header = Header(kLoadModelLibrary, app[t].id))
          /\ app[t].at = "raw" =>
               /\ Replied(t) /\ Status(t) = kSuccess
               /\ app[t].size = Declared(t)
               /\ RawRead = Len(buf[t]) /\ RawRead <= Declared(t)
               /\ buf[t] = Take(raw, RawRead)
               /\ storage = NoFile
          /\ (app[t].at = "write" \/ (Downloaded(t) /\ app[t].res = "ok")) =>
               /\ Status(t) = kSuccess
               /\ RawRead = Declared(t)
               /\ buf[t] = Library(t)
          /\ (Downloaded(t) /\ Replied(t) /\ Status(t) # kSuccess) =>
               /\ app[t].res # "ok"
               /\ RawRead = 0
               /\ storage = NoFile
               /\ ret[t].st = "value" =>
                    (app[t].res = "ModelException"
                       /\ app[t].msg = <<"Server reports error">>)
          /\ (Downloaded(t) /\ app[t].msg = <<"Server reports error">>) =>
               (Replied(t) /\ Status(t) # kSuccess /\ RawRead = 0))
  /\ [][\A t \in Downloaders :
          /\ app'[t].at # app[t].at =>
               \/ app[t].at = "none" /\ app'[t].at \in {"receive", "done"}
               \/ app[t].at = "receive" /\ app'[t].at \in {"raw", "done"}
               \/ app[t].at = "raw" /\ app'[t].at \in {"write", "done"}
               \/ app[t].at = "write" /\ app'[t].at = "done"
          /\ (app[t].at = "receive" /\ app'[t].at = "raw") =>
               /\ arg[t].op = "tcpBlockingReceiveResponse"
               /\ Want(t) = Header(kLoadModelLibrary, app[t].id)
               /\ ret[t].st = "value"
               /\ ret[t].val = <<W(kSuccess), W(Declared(t))>>
               /\ nread = FrameSize(kLoadModelLibrary)]_vars

\* The server answered with the other status and wrote three raw words behind
\* the response all the same; they have arrived, and the constructor has
\* ended in "Server reports error" with every one of them still in the socket.
C21_Witness ==
  /\ Downloaded(1)
  /\ app[1].res = "ModelException"
  /\ app[1].msg = <<"Server reports error">>
  /\ Len(raw) = MaxLibrary
  /\ tcp_in = raw
  /\ nread = FrameSize(kLoadModelLibrary)
  /\ storage = NoFile

(***************************************************************************)
(* A download with another caller on the same Network: the other threads   *)
(* send requests of their own and receive the responses to them, whichever *)
(* way, while the downloader runs.                                         *)
(***************************************************************************)
\* the headers of the requests that are not the downloader's
OtherIssued == {h \in Issued : h.command # kLoadModelLibrary}

RaceNext ==
  \/ \E i \in 1..Len(sent) : ServerLibraryReply(i, kSuccess, MaxLibrary)
  \/ \E i \in 1..Len(sent) :
       sent[i].header.command # kLoadModelLibrary /\ ServerRespond(i)
  \/ ServerDeliver
  \/ \E t \in Downloaders :
       \/ download_send(t)
       \/ download_sent(t)
       \/ download_receive(t)
       \/ download_status(t)
       \/ download_lock(t)
       \/ download_read(t)
       \/ download_write(t)
  \/ \E u \in Threads \ Downloaders :
       \/ tcpSendRequest_lock(u, 2, RequestArgs(2))
       \/ \E h \in OtherIssued : tcpReceiveResponse_lock(u, h.command, h.command_id)
       \/ tcpReceiveResponse_peek(u)
       \/ tcpReceiveResponse_read(u)
       \/ tcpReceiveResponse_handler(u)
       \/ \E h \in OtherIssued :
            tcpBlockingReceiveResponse_call(u, h.command, h.command_id)
  \/ \E t \in Threads :
       \/ tcpSendRequest_send(t)
       \/ tcpBlockingReceiveResponse_lock(t)
       \/ tcpBlockingReceiveResponse_peek(t)
       \/ tcpBlockingReceiveResponse_read(t)

RaceSpec == ConnectInit /\ [][RaceNext]_vars

(***************************************************************************)
(* C22 -- the raw payload and the other receivers.                         *)
(***************************************************************************)
\* the raw words declared to t stand on the stream right behind its response
\* frame: at positions RawFrom(t) + 1 .. RawFrom(t) + Declared(t)
RawFrom(t) == FrameEnd(FrameOf(Header(kLoadModelLibrary, app[t].id)))

\* C22 (as claimed): from the return of the downloader's receive to the end
\* of its raw read no tcpReceiveResponse or tcpBlockingReceiveResponse of
\* another thread takes a word of the declared raw payload off the stream,
\* and the buffer the downloader ends up with is the declared words, in
\* order, whenever the server supplied that many.
C22_PayloadUntouched ==
  /\ [](\A t \in Downloaders :
          (/\ app[t].at = "write" \/ (Downloaded(t) /\ app[t].res = "ok")
           /\ Len(raw) >= Declared(t)) =>
            (buf[t] = Library(t) /\ Len(buf[t]) = Declared(t)))
  /\ [][\A t \in Downloaders : \A u \in Threads \ {t} :
          (/\ app[t].at \in {"receive", "raw"}
           /\ Replied(t)
           /\ Len(raw) >= Declared(t)
           /\ Reading(u)
           /\ nread' > nread) =>
            (nread' <= RawFrom(t) \/ nread >= RawFrom(t) + Declared(t))]_vars

(***************************************************************************)
(* Every way an operation can fail: either socket in error, or a handler   *)
(* that throws.                                                            *)
(***************************************************************************)
Faults == Sockets \cup {"handler"}

LockNext ==
  \/ ChannelsNext
  \/ \E s \in Faults : SocketFault(s)

LockSpec == OneAnswered /\ [][LockNext]_vars

(***************************************************************************)
(* C23 -- no operation ends with a lock held.                              *)
(***************************************************************************)
\* C23: a thread outside the operations of Network owns neither mutex; the
\* step that ends an operation, by a return or by an exception (of the
\* peek, of the read of the frame, of the handler, of a send or a receive on
\* the datagram socket), leaves the mutex of its channel free; a mutex is
\* owned only by a thread inside an operation of its channel, so with every
\* thread outside both mutexes are free and a later caller gets its lock.
C23_LocksReleased ==
  /\ [](\A t \in Threads :
          /\ pc[t] \in {"idle", "blk_loop"} => (tcp_mutex_ # t /\ udp_mutex_ # t)
          /\ tcp_mutex_ = t => pc[t] \in TcpSection
          /\ udp_mutex_ = t => pc[t] \in UdpSection
          /\ (pc[t] = "idle" /\ tcp_mutex_ = 0) =>
               /\ ENABLED tcpReceiveResponse_lock(t, 2, id0)
               /\ ENABLED tcpBlockingReceiveResponse_call(t, 2, id0)
               /\ ncalls < MaxSends => ENABLED tcpSendRequest_lock(t, 2, RequestArgs(2))
          /\ (pc[t] = "idle" /\ udp_mutex_ = 0) =>
               /\ ENABLED udpReceive_lock(t)
               /\ ENABLED udpBlockingReceive_lock(t)
               /\ Len(udp_out) < MaxUdpSends => ENABLED udpSend_lock(t))
  /\ []((\A t \in Threads : pc[t] \in {"idle", "blk_loop"}) =>
          (tcp_mutex_ = 0 /\ udp_mutex_ = 0))
  /\ [][\A t \in Threads :
          (pc[t] # "idle" /\ pc'[t] = "idle") =>
            /\ pc[t] \in TcpSection => (tcp_mutex_ = t /\ tcp_mutex_' = 0)
            /\ pc[t] \in UdpSection => (udp_mutex_ = t /\ udp_mutex_' = 0)
            /\ ret'[t].st # "none"]_vars

\* Thread 1's handler threw: the exception left tcpReceiveResponse with the
\* frame taken and the mutex released, and thread 2 has since locked it for
\* a call of its own.
C23_Witness ==
  /\ arg[1].op = "tcpReceiveResponse"
  /\ pc[1] = "idle"
  /\ ret[1].st = "exception"
  /\ ret[1].hnd = <<srv_sent[1].payload>>
  /\ nread = FrameEnd(1)
  /\ pc[2] = "try_peek"
  /\ tcp_mutex_ = 2

(***************************************************************************)
(* C24 -- the handler of tcpReceiveResponse runs under tcp_mutex_.         *)
(***************************************************************************)
\* t's peek has matched and its handler has not returned yet
Matched(t) == pc[t] \in {"try_read", "try_handler"}

\* C24: from the peek that matched to the end of the handler the caller owns
\* tcp_mutex_ and no other thread is inside a send or a receive of the
\* reliable channel; in that interval no request is written, the counter
\* stands still, no other thread gets inside a send or a receive, and words
\* leave the stream only into the caller's own frame.  The handler is called with the whole
\* matching frame off the stream, on the payload of that frame.
C24_HandlerUnderLock ==
  /\ [](\A t \in Threads :
          /\ Matched(t) =>
               /\ tcp_mutex_ = t
               /\ \A u \in Threads \ {t} : pc[u] \notin TcpSection
               /\ ret[t].hnd = <<>>
          /\ pc[t] = "try_handler" =>
               /\ FrameOf(Want(t)) # 0
               /\ buf[t] = ResponseWords(srv_sent[FrameOf(Want(t))])
               /\ nread = FrameEnd(FrameOf(Want(t))))
  /\ [][\A t \in Threads :
          Matched(t) =>
            /\ sent' = sent
            /\ command_id_' = command_id_
            /\ \A u \in Threads \ {t} : pc'[u] \notin TcpSection
            /\ nread' # nread =>
                 /\ pc[t] = "try_read"
                 /\ buf'[t] = buf[t] \o SubSeq(tcp_in, 1, nread' - nread)
                 /\ tcp_in' = Drop(tcp_in, nread' - nread)
            /\ nread' = nread =>
                 (tcp_in' = tcp_in \/ tcp_in' = Append(tcp_in, Head(net)))]_vars
  /\ [][\A t \in Threads :
          ret'[t].hnd # ret[t].hnd =>
            \/ ret'[t].hnd = <<>>
            \/ /\ pc[t] = "try_handler"
               /\ tcp_mutex_ = t
               /\ ret'[t].hnd = <<srv_sent[FrameOf(Want(t))].payload>>
               /\ nread' = nread
               /\ tcp_mutex_' = 0]_vars

\* Thread 1 has read its frame and is at its handler with the lock; thread
\* 2 waits in the loop of tcpBlockingReceiveResponse, its own frame at the
\* head of the stream, and cannot lock.
C24_Witness ==
  /\ pc[1] = "try_handler" /\ tcp_mutex_ = 1
  /\ pc[2] = "blk_loop"
  /\ HeadIs(2)
  /\ ~ENABLED tcpBlockingReceiveResponse_lock(2)

====
